---- MODULE Spec2Model ----
(***************************************************************************)
(* Model of voice_controller.py: the VoiceControllerApp command parser,    *)
(* the capture loop, the command sender, the connectivity probe and the    *)
(* Tk event loop that serialises every interface-thread callback.          *)
(*                                                                         *)
(* Text is a sequence of one-character strings, so that lower(), strip()   *)
(* and the substring test `phrase in text` are computed on characters.     *)
(***************************************************************************)
EXTENDS Naturals, Sequences, FiniteSets

(***************************************************************************)
(* String literals of the source, as character sequences.                  *)
(***************************************************************************)
S_increase_blood_flow == <<"i","n","c","r","e","a","s","e"," ","b","l","o","o","d"," ","f","l","o","w">>
S_increase == <<"i","n","c","r","e","a","s","e">>
S_flow == <<"f","l","o","w">>
S_more_blood == <<"m","o","r","e"," ","b","l","o","o","d">>
S_decrease_blood_flow == <<"d","e","c","r","e","a","s","e"," ","b","l","o","o","d"," ","f","l","o","w">>
S_decrease == <<"d","e","c","r","e","a","s","e">>
S_reduce_blood == <<"r","e","d","u","c","e"," ","b","l","o","o","d">>
S_increase_oxygen == <<"i","n","c","r","e","a","s","e"," ","o","x","y","g","e","n">>
S_decrease_oxygen == <<"d","e","c","r","e","a","s","e"," ","o","x","y","g","e","n">>
S_alarm_on == <<"a","l","a","r","m"," ","o","n">>
S_alarm_off == <<"a","l","a","r","m"," ","o","f","f">>
S_mute_alarm == <<"m","u","t","e"," ","a","l","a","r","m">>
S_critical_mode == <<"c","r","i","t","i","c","a","l"," ","m","o","d","e">>
S_reset == <<"r","e","s","e","t">>

\* Python's None, the null result of parse_command.
None == "None"

\* COMMAND_MAP: a dict literal, iterated by .items() in insertion order.
COMMAND_MAP_swapped ==
    << [phrase |-> S_increase_oxygen, code |-> "1"],
       [phrase |-> S_decrease_oxygen, code |-> "2"],
       [phrase |-> S_alarm_on,        code |-> "2"],
       [phrase |-> S_alarm_off,       code |-> "1"],
       [phrase |-> S_mute_alarm,      code |-> "2"],
       [phrase |-> S_critical_mode,   code |-> "1"],
       [phrase |-> S_reset,           code |-> "2"] >>

COMMAND_MAP ==
    << [phrase |-> S_increase_oxygen, code |-> "1"],
       [phrase |-> S_decrease_oxygen, code |-> "2"],
       [phrase |-> S_alarm_on,        code |-> "1"],
       [phrase |-> S_alarm_off,       code |-> "2"],
       [phrase |-> S_mute_alarm,      code |-> "2"],
       [phrase |-> S_critical_mode,   code |-> "1"],
       [phrase |-> S_reset,           code |-> "2"] >>

(***************************************************************************)
(* str.lower(), str.upper(), str.strip() and the `in` operator on str.     *)
(***************************************************************************)
UpperLetters == <<"A","B","C","D","E","F","G","H","I","J","K","L","M",
                  "N","O","P","Q","R","S","T","U","V","W","X","Y","Z">>
LowerLetters == <<"a","b","c","d","e","f","g","h","i","j","k","l","m",
                  "n","o","p","q","r","s","t","u","v","w","x","y","z">>

\* The characters str.strip() removes (the ASCII ones the inputs use).
Whitespace == {" ", "\t", "\n"}

LowerChar(c) ==
    IF \E k \in 1..Len(UpperLetters) : UpperLetters[k] = c
    THEN LowerLetters[CHOOSE k \in 1..Len(UpperLetters) : UpperLetters[k] = c]
    ELSE c

UpperChar(c) ==
    IF \E k \in 1..Len(LowerLetters) : LowerLetters[k] = c
    THEN UpperLetters[CHOOSE k \in 1..Len(LowerLetters) : LowerLetters[k] = c]
    ELSE c

lower(s) == [k \in 1..Len(s) |-> LowerChar(s[k])]

upper(s) == [k \in 1..Len(s) |-> UpperChar(s[k])]

strip(s) ==
    LET keep == {k \in 1..Len(s) : s[k] \notin Whitespace}
    IN  IF keep = {} THEN << >>
        ELSE LET first == CHOOSE k \in keep : \A j \in keep : k <= j
                 last  == CHOOSE k \in keep : \A j \in keep : j <= k
             IN  SubSeq(s, first, last)

\* `p in s` for str: p occurs in s as a contiguous substring.
Contains(s, p) ==
    \E k \in 1..(Len(s) + 1) :
        /\ k + Len(p) - 1 <= Len(s)
        /\ SubSeq(s, k, k + Len(p) - 1) = p

(***************************************************************************)
(* VoiceControllerApp.parse_command                                        *)
(***************************************************************************)
RECURSIVE map_lookup(_, _)
\* for phrase, code in COMMAND_MAP.items(): if phrase in text: return code
map_lookup(t, k) ==
    IF k > Len(COMMAND_MAP) THEN None
    ELSE IF Contains(t, COMMAND_MAP[k].phrase) THEN COMMAND_MAP[k].code
    ELSE map_lookup(t, k + 1)

increase_rule(t) ==
    \/ Contains(t, S_increase_blood_flow)
    \/ (Contains(t, S_increase) /\ Contains(t, S_flow))
    \/ Contains(t, S_more_blood)

decrease_rule(t) ==
    \/ Contains(t, S_decrease_blood_flow)
    \/ (Contains(t, S_decrease) /\ Contains(t, S_flow))
    \/ Contains(t, S_reduce_blood)

\* Mutant: the two hard-coded checks in the opposite order.
parse_command_decrease_first(text) ==
    LET t == strip(lower(text))
    IN  IF decrease_rule(t) THEN "2"
        ELSE IF increase_rule(t) THEN "1"
        ELSE map_lookup(t, 1)

\* Mutant: the hard-coded blood-flow checks are missing.
parse_command_table_only(text) ==
    LET t == strip(lower(text))
    IN  map_lookup(t, 1)

\* Mutant: the text is stripped but not lower-cased.
parse_command_no_lower(text) ==
    LET t == strip(text)
    IN  IF increase_rule(t) THEN "1"
        ELSE IF decrease_rule(t) THEN "2"
        ELSE map_lookup(t, 1)

parse_command(text) ==
    LET t == strip(lower(text))
    IN  IF increase_rule(t) THEN "1"
        ELSE IF decrease_rule(t) THEN "2"
        ELSE map_lookup(t, 1)

(***************************************************************************)
(* Bounds and input sets.                                                  *)
(***************************************************************************)
\* Fragments concatenated into one parser input.
MaxFrags == 2
\* Letters of a text whose case is changed one at a time.
MaxToggles == 1
\* Whitespace characters added around a text.
MaxPad == 2

S_hello == <<"h","e","l","l","o">>
S_space == <<" ">>
S_decrease_the_flow == <<"d","e","c","r","e","a","s","e"," ","t","h","e"," ","f","l","o","w">>

\* Pieces of parser input: every phrase a rule tests, and text no rule tests.
Fragments ==
    { S_increase_blood_flow, S_increase, S_flow, S_more_blood,
      S_decrease_blood_flow, S_decrease, S_reduce_blood,
      S_increase_oxygen, S_decrease_oxygen, S_alarm_on, S_alarm_off,
      S_mute_alarm, S_critical_mode, S_reset, S_hello, S_space }

\* Whitespace added in front of or behind a text.
PadChars == {" ", "\t"}

VARIABLES
    \* ---- parser harness ----
    text,           \* parser input under test
    result,         \* parse_command(text), "unset" before the first call
    nfrags,         \* fragments concatenated into text
    variant,        \* text with letter case changed and whitespace added
    variantResult,  \* parse_command(variant)
    ntoggles,       \* single letters of variant whose case was changed
    npads,          \* whitespace characters added around variant
    \* ---- VoiceControllerApp ----
    is_listening,       \* self.is_listening
    is_critical_mode,   \* self.is_critical_mode
    microphone,         \* self.microphone: None or the device it was opened on
    mic_list,           \* self.mic_list
    selected_mic_index, \* self.selected_mic_index
    mic_combo,          \* text shown in self.mic_combo, "" when nothing is selected
    widgets,            \* state option of start_btn, stop_btn, mic_combo, refresh_mic_btn
    mic_status,         \* text of self.mic_status_label
    esp_status,         \* text of self.esp_status_label
    speech_text,        \* text of self.speech_text_label
    log,                \* the lines last inserted at the end of self.log_box (the box
                        \* is append-only and never read back), each with its writer
    queue,              \* callbacks scheduled with root.after(0, ...), oldest first
    loops,              \* the listen_loop threads started so far
    sends,              \* the send_request threads that have not finished, each with
                        \* its position and the outcome of its requests.get
    probe,              \* the check thread of check_esp_connection
    clicks              \* user actions handled so far

harnessVars == <<text, result, nfrags, variant, variantResult, ntoggles, npads>>

appVars == <<is_listening, is_critical_mode, microphone, mic_list,
             selected_mic_index, mic_combo, widgets, mic_status, esp_status,
             speech_text, log, queue, loops, sends, probe, clicks>>

vars == <<harnessVars, appVars>>

HarnessIdle ==
    /\ text = << >>
    /\ result = "unset"
    /\ nfrags = 0
    /\ variant = << >>
    /\ variantResult = "unset"
    /\ ntoggles = 0
    /\ npads = 0

(***************************************************************************)
(* VoiceControllerApp: interface texts, log entries and scheduled calls.   *)
(***************************************************************************)
S_waiting == <<"(","w","a","i","t","i","n","g"," ","f","o","r"," ","i","n","p","u","t",".",".",".",")">>
S_No_microphones_found == <<"N","o"," ","m","i","c","r","o","p","h","o","n","e","s"," ","f","o","u","n","d">>
S_Error_detecting_microphones == <<"E","r","r","o","r"," ","d","e","t","e","c","t","i","n","g"," ","m","i","c","r","o","p","h","o","n","e","s">>
S_No_microphones == <<"N","o"," ","m","i","c","r","o","p","h","o","n","e","s">>
S_Error == <<"E","r","r","o","r">>

\* User actions (button presses, selections) handled in one run.
MaxClicks == 2
\* Iterations one listen_loop thread begins.
MaxIters == 2
\* Scheduled calls waiting for the interface thread.
MaxQueue == 2
\* send_request threads running at the same time.
MaxSends == 1

\* Device names the platform may enumerate.
S_USB_Mic == <<"U","S","B"," ","M","i","c">>
S_Headset == <<"H","e","a","d","s","e","t">>

\* Outcomes of sr.Microphone.list_microphone_names(): it raises, or returns
\* a list of names. An absent optional value (None) is the empty sequence.
Enumerations ==
    { [ok |-> FALSE, names |-> << >>],
      [ok |-> TRUE,  names |-> << >>],
      [ok |-> TRUE,  names |-> <<S_USB_Mic>>],
      [ok |-> TRUE,  names |-> <<S_USB_Mic, S_Headset>>] }

\* What recognize_google may return for a captured phrase.
S_Alarm_On == <<"A","l","a","r","m"," ","O","n">>
Utterances == { S_Alarm_On, S_decrease_the_flow, S_hello }

\* Outcomes of requests.get(url, timeout=TIMEOUT) in send_request.
SendOutcomes ==
    { [kind |-> "response", status_code |-> 200],
      [kind |-> "response", status_code |-> 404],
      [kind |-> "response", status_code |-> 500],
      [kind |-> "ConnectionError", status_code |-> 0],
      [kind |-> "Timeout", status_code |-> 0],
      [kind |-> "Exception", status_code |-> 0] }

Pending == [kind |-> "pending", status_code |-> 0]

\* One line of the log box, and the thread whose call inserted it.
Entry(level, msg, by) == [level |-> level, msg |-> msg, by |-> by]

\* self.root.after(0, self.log_message, level, msg)
LogEvent(level, msg) ==
    [fn |-> "log_message", level |-> level, msg |-> msg, status |-> "", text |-> << >>]

\* self.root.after(0, self.update_esp_status, status, color)
StatusEvent(status) ==
    [fn |-> "update_esp_status", level |-> "", msg |-> "", status |-> status, text |-> << >>]

\* self.root.after(0, self.process_speech, text)
SpeechEvent(t) ==
    [fn |-> "process_speech", level |-> "", msg |-> "", status |-> "", text |-> t]

(***************************************************************************)
(* Microphone management.                                                  *)
(***************************************************************************)
\* get_mic_list: the list it returns.
get_mic_list(e) ==
    IF ~e.ok THEN <<S_Error_detecting_microphones>>
    ELSE IF e.names = << >> THEN <<S_No_microphones_found>>
    ELSE e.names

\* get_mic_list: the entries it logs.
get_mic_list_log(e) ==
    IF ~e.ok THEN <<Entry("ERROR", "Failed to enumerate microphones", "ui")>>
    ELSE IF e.names = << >> THEN <<Entry("WARN", "No microphones detected", "ui")>>
    ELSE << >>

\* refresh_mic_list: the test that guards the default selection.
valid_mic_list(l) ==
    /\ l # << >>
    /\ ~Contains(l[1], S_No_microphones)
    /\ ~Contains(l[1], S_Error)

refresh_mic_list_log(e) ==
    get_mic_list_log(e) \o
    ( IF valid_mic_list(get_mic_list(e))
      THEN << Entry("INFO", "Microphone list refreshed", "ui"),
              Entry("INFO", "Default microphone", "ui") >>
      ELSE << Entry("WARN", "No valid microphones available", "ui") >> )

\* get_selected_mic_index: list.index of the combobox text, None if absent.
get_selected_mic_index(combo, l) ==
    LET hits == {k \in 1..Len(l) : l[k] = combo}
    IN  IF hits = {} THEN << >>
        ELSE << (CHOOSE k \in hits : \A j \in hits : k <= j) - 1 >>

refresh_mic_list(e) ==
    /\ widgets.refresh_mic_btn = "normal"
    /\ clicks' = clicks + 1
    /\ mic_list' = get_mic_list(e)
    /\ IF valid_mic_list(mic_list')
       THEN mic_combo' = mic_list'[1] /\ selected_mic_index' = <<0>>
       ELSE UNCHANGED <<mic_combo, selected_mic_index>>
    /\ log' = refresh_mic_list_log(e)
    /\ UNCHANGED <<is_listening, is_critical_mode, microphone, widgets,
                   mic_status, esp_status, speech_text, queue, loops, sends, probe>>
    /\ UNCHANGED harnessVars

on_mic_selected(name) ==
    /\ widgets.mic_combo = "readonly"
    /\ clicks' = clicks + 1
    /\ \E k \in 1..Len(mic_list) : mic_list[k] = name
    /\ mic_combo' = name
    /\ selected_mic_index' = get_selected_mic_index(name, mic_list)
    /\ log' = <<Entry("INFO", "Microphone selected", "ui")>>
    /\ UNCHANGED <<is_listening, is_critical_mode, microphone, mic_list, widgets,
                   mic_status, esp_status, speech_text, queue, loops, sends, probe>>
    /\ UNCHANGED harnessVars

(***************************************************************************)
(* The state __init__ leaves: the interface built, the microphone list     *)
(* refreshed once, the connectivity probe started.                         *)
(***************************************************************************)
AppInitWith(e) ==
    /\ is_listening = FALSE
    /\ is_critical_mode = FALSE
    /\ microphone = [created |-> FALSE, device_index |-> << >>]
    /\ mic_list = get_mic_list(e)
    /\ selected_mic_index = IF valid_mic_list(get_mic_list(e)) THEN <<0>> ELSE << >>
    /\ mic_combo = IF valid_mic_list(get_mic_list(e)) THEN get_mic_list(e)[1] ELSE << >>
    /\ widgets = [start_btn |-> "normal", stop_btn |-> "disabled",
                  mic_combo |-> "readonly", refresh_mic_btn |-> "normal"]
    /\ mic_status = "Idle"
    /\ esp_status = "Checking..."
    /\ speech_text = S_waiting
    /\ log = refresh_mic_list_log(e) \o <<Entry("INFO", "Application started", "ui")>>
    /\ queue = << >>
    /\ loops = << >>
    /\ sends = << >>
    /\ probe = [pc |-> "request", outcome |-> "pending"]
    /\ clicks = 0

AppInit == \E e \in Enumerations : AppInitWith(e)

\* The application at rest while the parser alone is exercised.
AppIdle == AppInitWith([ok |-> TRUE, names |-> <<S_USB_Mic>>])

(***************************************************************************)
(* Device command sender and connectivity probe.                           *)
(***************************************************************************)
\* send_command, on the calling thread: a send_request thread is started.
send_command(value) ==
    Append(sends, [value |-> value, pc |-> "start", outcome |-> Pending])

\* Mutant: any status other than 200 is handled like a connection failure.
send_request_events_non200_fails(o) ==
    IF o.kind = "response" /\ o.status_code = 200
    THEN << LogEvent("OK", "ESP acknowledged command"), StatusEvent("Connected") >>
    ELSE IF o.kind = "Timeout"
    THEN << LogEvent("ERROR", "ESP request timeout"), StatusEvent("Timeout") >>
    ELSE IF o.kind = "Exception"
    THEN << LogEvent("ERROR", "Request failed") >>
    ELSE << LogEvent("ERROR", "Cannot connect to ESP - check IP and WiFi"),
            StatusEvent("Not Connected") >>

\* Mutant: a generic failure shows a status of its own.
send_request_events_error_status(o) ==
    IF o.kind = "response"
    THEN IF o.status_code = 200
         THEN << LogEvent("OK", "ESP acknowledged command"), StatusEvent("Connected") >>
         ELSE << LogEvent("WARN", "ESP returned status") >>
    ELSE IF o.kind = "ConnectionError"
    THEN << LogEvent("ERROR", "Cannot connect to ESP - check IP and WiFi"),
            StatusEvent("Not Connected") >>
    ELSE IF o.kind = "Timeout"
    THEN << LogEvent("ERROR", "ESP request timeout"), StatusEvent("Timeout") >>
    ELSE << LogEvent("ERROR", "Request failed"), StatusEvent("Error") >>

\* send_request: the calls it schedules once requests.get has ended with o.
send_request_events(o) ==
    IF o.kind = "response"
    THEN IF o.status_code = 200
         THEN << LogEvent("OK", "ESP acknowledged command"), StatusEvent("Connected") >>
         ELSE << LogEvent("WARN", "ESP returned status") >>
    ELSE IF o.kind = "ConnectionError"
    THEN << LogEvent("ERROR", "Cannot connect to ESP - check IP and WiFi"),
            StatusEvent("Not Connected") >>
    ELSE IF o.kind = "Timeout"
    THEN << LogEvent("ERROR", "ESP request timeout"), StatusEvent("Timeout") >>
    ELSE << LogEvent("ERROR", "Request failed") >>

\* send_request, first statement: the SENT entry is scheduled.
send_request_start(t) ==
    /\ t \in DOMAIN sends
    /\ sends[t].pc = "start"
    /\ queue' = Append(queue, LogEvent("SENT", "Sending command to ESP..."))
    /\ sends' = [sends EXCEPT ![t].pc = "get"]
    /\ UNCHANGED <<is_listening, is_critical_mode, microphone, mic_list,
                   selected_mic_index, mic_combo, widgets, mic_status, esp_status,
                   speech_text, log, loops, probe, clicks>>
    /\ UNCHANGED harnessVars

\* send_request: requests.get(url, timeout=TIMEOUT) returns a response or
\* raises; o is what it did.
send_request_get(t, o) ==
    /\ t \in DOMAIN sends
    /\ sends[t].pc = "get"
    /\ sends' = [sends EXCEPT ![t].pc = "handle", ![t].outcome = o]
    /\ UNCHANGED <<is_listening, is_critical_mode, microphone, mic_list,
                   selected_mic_index, mic_combo, widgets, mic_status, esp_status,
                   speech_text, log, queue, loops, probe, clicks>>
    /\ UNCHANGED harnessVars

\* send_request: the branch on the status code, or the except clause, runs
\* and the thread ends.
send_request_handle(t) ==
    /\ t \in DOMAIN sends
    /\ sends[t].pc = "handle"
    /\ queue' = queue \o send_request_events(sends[t].outcome)
    /\ sends' = [k \in 1..(Len(sends) - 1) |-> IF k < t THEN sends[k] ELSE sends[k + 1]]
    /\ UNCHANGED <<is_listening, is_critical_mode, microphone, mic_list,
                   selected_mic_index, mic_combo, widgets, mic_status, esp_status,
                   speech_text, log, loops, probe, clicks>>
    /\ UNCHANGED harnessVars

\* check_esp_connection, the check thread: any response is success, any
\* exception is failure.
check(ok) ==
    /\ probe.pc = "request"
    /\ probe' = [pc |-> "done", outcome |-> IF ok THEN "ok" ELSE "failed"]
    /\ queue' = Append(queue, StatusEvent(IF ok THEN "Connected" ELSE "Not Connected"))
    /\ UNCHANGED <<is_listening, is_critical_mode, microphone, mic_list,
                   selected_mic_index, mic_combo, widgets, mic_status, esp_status,
                   speech_text, log, loops, sends, clicks>>
    /\ UNCHANGED harnessVars

(***************************************************************************)
(* Speech capture: start_listening, stop_listening, listen_loop.           *)
(***************************************************************************)
\* ctor_ok: whether sr.Microphone(...) returns or raises.
start_listening(ctor_ok) ==
    /\ widgets.start_btn = "normal"
    /\ clicks' = clicks + 1
    /\ IF is_listening
       THEN UNCHANGED <<is_listening, microphone, selected_mic_index, widgets,
                        mic_status, log, loops>>
       ELSE /\ selected_mic_index' = get_selected_mic_index(mic_combo, mic_list)
            /\ IF ~ctor_ok
               THEN /\ log' = <<Entry("ERROR", "Failed to initialize microphone", "ui")>>
                    /\ UNCHANGED <<is_listening, microphone, widgets, mic_status, loops>>
               ELSE /\ microphone' = [created |-> TRUE,
                                      device_index |-> selected_mic_index']
                    /\ is_listening' = TRUE
                    /\ widgets' = [start_btn |-> "disabled", stop_btn |-> "normal",
                                   mic_combo |-> "disabled", refresh_mic_btn |-> "disabled"]
                    /\ mic_status' = "Listening"
                    /\ log' =
                         << Entry("INFO", IF selected_mic_index' # << >>
                                          THEN "Using microphone"
                                          ELSE "Using default microphone", "ui"),
                            Entry("INFO", "Started listening for voice commands", "ui") >>
                    /\ loops' = Append(loops, [pc |-> "calibrate", begun |-> 0,
                                               last |-> "none", stopped |-> FALSE,
                                               after |-> 0])
    /\ UNCHANGED <<is_critical_mode, mic_list, mic_combo, esp_status, speech_text,
                   queue, sends, probe>>
    /\ UNCHANGED harnessVars

Alive(l) == l.pc \notin {"exited", "dead"}

stop_listening ==
    /\ widgets.stop_btn = "normal"
    /\ clicks' = clicks + 1
    /\ is_listening' = FALSE
    /\ widgets' = [start_btn |-> "normal", stop_btn |-> "disabled",
                   mic_combo |-> "readonly", refresh_mic_btn |-> "normal"]
    /\ mic_status' = "Idle"
    /\ log' = <<Entry("INFO", "Stopped listening", "ui")>>
    \* bookkeeping: the loops this call found running
    /\ loops' = [t \in DOMAIN loops |->
                    IF Alive(loops[t]) THEN [loops[t] EXCEPT !.stopped = TRUE]
                    ELSE loops[t]]
    /\ UNCHANGED <<is_critical_mode, microphone, mic_list, selected_mic_index,
                   mic_combo, esp_status, speech_text, queue, sends, probe>>
    /\ UNCHANGED harnessVars

\* listen_loop before the while: the calibration block. The source is opened
\* (which may raise), the entry is written by a direct call of log_message,
\* and adjust_for_ambient_noise runs (which may raise). Nothing catches an
\* exception here: the thread dies.
listen_loop_calibrate(t, o) ==
    /\ t \in DOMAIN loops
    /\ loops[t].pc = "calibrate"
    /\ log' = IF o = "open_failed" THEN log
              ELSE <<Entry("INFO", "Calibrating for ambient noise...", "listen_loop")>>
    /\ loops' = [loops EXCEPT ![t].pc = IF o = "ok" THEN "check" ELSE "dead"]
    /\ UNCHANGED <<is_listening, is_critical_mode, microphone, mic_list,
                   selected_mic_index, mic_combo, widgets, mic_status, esp_status,
                   speech_text, queue, sends, probe, clicks>>
    /\ UNCHANGED harnessVars

\* while self.is_listening:
listen_loop_check(t) ==
    /\ t \in DOMAIN loops
    /\ loops[t].pc = "check"
    /\ loops' = IF is_listening
                THEN [loops EXCEPT ![t].pc = "listen",
                                   ![t].last = "none",
                                   ![t].begun = @ + 1,
                                   ![t].after = IF loops[t].stopped THEN @ + 1 ELSE @]
                ELSE [loops EXCEPT ![t].pc = "exited", ![t].last = "none"]
    /\ UNCHANGED <<is_listening, is_critical_mode, microphone, mic_list,
                   selected_mic_index, mic_combo, widgets, mic_status, esp_status,
                   speech_text, log, queue, sends, probe, clicks>>
    /\ UNCHANGED harnessVars

\* Outcomes of recognizer.listen and of recognize_google in one iteration.
ListenOutcomes == {"audio", "WaitTimeoutError", "Exception"}
RecognizeOutcomes == {"text", "UnknownValueError", "RequestError", "Exception"}

\* The calls one iteration schedules for outcome o (u: the recognized text).
iteration_events(o, u) ==
    IF o = "text" THEN << SpeechEvent(lower(u)) >>
    ELSE IF o = "UnknownValueError"
    THEN << LogEvent("WARN", "Could not understand audio") >>
    ELSE IF o = "RequestError"
    THEN << LogEvent("ERROR", "Speech recognition error") >>
    ELSE IF o = "Exception"
    THEN << LogEvent("ERROR", "Listening error") >>
    ELSE << >>

\* Mutant: a recognition-service error leaves the loop.
iteration_next_pc_service_error_breaks(o) ==
    IF o = "audio" THEN "recognize"
    ELSE IF o \in {"Exception", "RequestError"} THEN "exited"
    ELSE "check"

\* Where the loop goes after outcome o: on to recognition, back to the while
\* test (continue, or the end of the body), or out of the loop (break).
iteration_next_pc(o) ==
    IF o = "audio" THEN "recognize"
    ELSE IF o = "Exception" THEN "exited"
    ELSE "check"

\* with self.microphone as source: audio = self.recognizer.listen(...)
listen_loop_listen(t, o) ==
    /\ t \in DOMAIN loops
    /\ loops[t].pc = "listen"
    /\ queue' = queue \o iteration_events(o, << >>)
    /\ loops' = [loops EXCEPT ![t].pc = iteration_next_pc(o), ![t].last = o]
    /\ UNCHANGED <<is_listening, is_critical_mode, microphone, mic_list,
                   selected_mic_index, mic_combo, widgets, mic_status, esp_status,
                   speech_text, log, sends, probe, clicks>>
    /\ UNCHANGED harnessVars

\* text = self.recognizer.recognize_google(audio).lower() and its handlers
listen_loop_recognize(t, o, u) ==
    /\ t \in DOMAIN loops
    /\ loops[t].pc = "recognize"
    /\ queue' = queue \o iteration_events(o, u)
    /\ loops' = [loops EXCEPT ![t].pc = iteration_next_pc(o), ![t].last = o]
    /\ UNCHANGED <<is_listening, is_critical_mode, microphone, mic_list,
                   selected_mic_index, mic_combo, widgets, mic_status, esp_status,
                   speech_text, log, sends, probe, clicks>>
    /\ UNCHANGED harnessVars

(***************************************************************************)
(* The Tk event loop runs one scheduled call at a time on the interface    *)
(* thread, oldest first.                                                   *)
(***************************************************************************)
log_message ==
    /\ queue # << >>
    /\ Head(queue).fn = "log_message"
    /\ queue' = Tail(queue)
    /\ log' = <<Entry(Head(queue).level, Head(queue).msg, "ui")>>
    /\ UNCHANGED <<is_listening, is_critical_mode, microphone, mic_list,
                   selected_mic_index, mic_combo, widgets, mic_status, esp_status,
                   speech_text, loops, sends, probe, clicks>>
    /\ UNCHANGED harnessVars

update_esp_status ==
    /\ queue # << >>
    /\ Head(queue).fn = "update_esp_status"
    /\ queue' = Tail(queue)
    /\ esp_status' = Head(queue).status
    /\ UNCHANGED <<is_listening, is_critical_mode, microphone, mic_list,
                   selected_mic_index, mic_combo, widgets, mic_status,
                   speech_text, log, loops, sends, probe, clicks>>
    /\ UNCHANGED harnessVars

Quoted(t) == <<"\"">> \o t \o <<"\"">>

process_speech ==
    /\ queue # << >>
    /\ Head(queue).fn = "process_speech"
    /\ queue' = Tail(queue)
    /\ speech_text' = Quoted(Head(queue).text)
    /\ LET command_code == parse_command(Head(queue).text)
       IN  IF command_code # None
           THEN /\ log' = << Entry("HEARD", "(the text)", "ui"),
                                    Entry("PARSED", "Command mapped to code", "ui") >>
                /\ sends' = send_command(command_code)
           ELSE /\ log' = << Entry("HEARD", "(the text)", "ui"),
                                    Entry("WARN", "Unknown command - no action taken", "ui") >>
                /\ UNCHANGED sends
    /\ UNCHANGED <<is_listening, is_critical_mode, microphone, mic_list,
                   selected_mic_index, mic_combo, widgets, mic_status, esp_status,
                   loops, probe, clicks>>
    /\ UNCHANGED harnessVars

(***************************************************************************)
(* Mode control.                                                           *)
(***************************************************************************)
set_normal_mode ==
    /\ clicks' = clicks + 1
    /\ is_critical_mode' = FALSE
    /\ sends' = send_command("0")
    /\ log' = <<Entry("MODE", "Switched to NORMAL mode", "ui")>>
    /\ UNCHANGED <<is_listening, microphone, mic_list, selected_mic_index,
                   mic_combo, widgets, mic_status, esp_status, speech_text,
                   queue, loops, probe>>
    /\ UNCHANGED harnessVars

set_critical_mode ==
    /\ clicks' = clicks + 1
    /\ is_critical_mode' = TRUE
    /\ sends' = send_command("5")
    /\ log' = <<Entry("MODE", "Switched to CRITICAL mode", "ui")>>
    /\ UNCHANGED <<is_listening, microphone, mic_list, selected_mic_index,
                   mic_combo, widgets, mic_status, esp_status, speech_text,
                   queue, loops, probe>>
    /\ UNCHANGED harnessVars

reset_system ==
    /\ clicks' = clicks + 1
    /\ sends' = send_command("2")
    /\ log' = <<Entry("RESET", "System reset command sent", "ui")>>
    /\ speech_text' = S_waiting
    /\ UNCHANGED <<is_listening, is_critical_mode, microphone, mic_list,
                   selected_mic_index, mic_combo, widgets, mic_status, esp_status,
                   queue, loops, probe>>
    /\ UNCHANGED harnessVars

(***************************************************************************)
(* Spec: the interactive controller.                                       *)
(***************************************************************************)
\* The bounds of a run: user actions left, room for another send_request
\* thread, and room in the event queue for n more scheduled calls.
CanClick == clicks < MaxClicks
CanSend == Len(sends) < MaxSends
\* process_speech starts a send_request thread when the text holds a command.
CanProcess ==
    /\ queue # << >>
    /\ Head(queue).fn = "process_speech"
    /\ parse_command(Head(queue).text) # None => CanSend
Room(n) == Len(queue) + n <= MaxQueue

Init == HarnessIdle /\ AppInit

Next ==
    \/ CanClick /\ \E e \in Enumerations : refresh_mic_list(e)
    \/ CanClick /\ \E k \in 1..Len(mic_list) : on_mic_selected(mic_list[k])
    \/ CanClick /\ \E ctor_ok \in BOOLEAN : start_listening(ctor_ok)
    \/ CanClick /\ stop_listening
    \/ \E t \in DOMAIN loops :
          \E o \in {"ok", "open_failed", "adjust_failed"} : listen_loop_calibrate(t, o)
    \/ \E t \in DOMAIN loops :
          (is_listening => loops[t].begun < MaxIters) /\ listen_loop_check(t)
    \/ Room(1) /\ \E t \in DOMAIN loops : \E o \in ListenOutcomes : listen_loop_listen(t, o)
    \/ Room(1) /\ \E t \in DOMAIN loops : \E o \in RecognizeOutcomes :
          \E u \in (IF o = "text" THEN Utterances ELSE {<< >>}) :
              listen_loop_recognize(t, o, u)
    \/ log_message
    \/ update_esp_status
    \/ CanProcess /\ process_speech
    \/ Room(1) /\ \E t \in DOMAIN sends : send_request_start(t)
    \/ \E t \in DOMAIN sends : \E o \in SendOutcomes : send_request_get(t, o)
    \/ Room(2) /\ \E t \in DOMAIN sends : send_request_handle(t)
    \/ Room(1) /\ \E ok \in BOOLEAN : check(ok)
    \/ CanClick /\ CanSend /\ set_normal_mode
    \/ CanClick /\ CanSend /\ set_critical_mode
    \/ CanClick /\ CanSend /\ reset_system

Spec == Init /\ [][Next]_vars

(***************************************************************************)
(* SpecSend: the controller while the user only presses the mode and reset *)
(* buttons: the sender, the probe and the event loop.                      *)
(***************************************************************************)
InitSend == HarnessIdle /\ AppInit

NextSend ==
    \/ CanClick /\ CanSend /\ set_normal_mode
    \/ CanClick /\ CanSend /\ set_critical_mode
    \/ CanClick /\ CanSend /\ reset_system
    \/ Room(1) /\ \E t \in DOMAIN sends : send_request_start(t)
    \/ \E t \in DOMAIN sends : \E o \in SendOutcomes : send_request_get(t, o)
    \/ Room(2) /\ \E t \in DOMAIN sends : send_request_handle(t)
    \/ Room(1) /\ \E ok \in BOOLEAN : check(ok)
    \/ log_message
    \/ update_esp_status

SpecSend == InitSend /\ [][NextSend]_vars

(***************************************************************************)
(* SpecRestart: the controller while the user only starts and stops        *)
(* listening, one press more than Spec allows (start, stop, start).        *)
(***************************************************************************)
CanRestart == clicks < MaxClicks + 1

InitRestart == HarnessIdle /\ AppIdle

NextRestart ==
    \/ CanRestart /\ \E ctor_ok \in BOOLEAN : start_listening(ctor_ok)
    \/ CanRestart /\ stop_listening
    \/ \E t \in DOMAIN loops :
          \E o \in {"ok", "open_failed", "adjust_failed"} : listen_loop_calibrate(t, o)
    \/ \E t \in DOMAIN loops :
          (is_listening => loops[t].begun < MaxIters) /\ listen_loop_check(t)
    \/ Room(1) /\ \E t \in DOMAIN loops : \E o \in ListenOutcomes : listen_loop_listen(t, o)
    \/ Room(1) /\ \E t \in DOMAIN loops : \E o \in RecognizeOutcomes :
          \E u \in (IF o = "text" THEN Utterances ELSE {<< >>}) :
              listen_loop_recognize(t, o, u)
    \/ log_message
    \/ update_esp_status
    \/ CanProcess /\ process_speech
    \/ Room(1) /\ \E t \in DOMAIN sends : send_request_start(t)
    \/ \E t \in DOMAIN sends : \E o \in SendOutcomes : send_request_get(t, o)
    \/ Room(2) /\ \E t \in DOMAIN sends : send_request_handle(t)
    \/ Room(1) /\ \E ok \in BOOLEAN : check(ok)

SpecRestart == InitRestart /\ [][NextRestart]_vars

(***************************************************************************)
(* SpecParse: parse_command applied to every concatenation of at most      *)
(* MaxFrags fragments.                                                     *)
(***************************************************************************)
AppendFragment(f) ==
    /\ nfrags < MaxFrags
    /\ nfrags' = nfrags + 1
    /\ text' = text \o f
    /\ result' = parse_command(text')
    /\ UNCHANGED <<variant, variantResult, ntoggles, npads>>
    /\ UNCHANGED appVars

InitParse == HarnessIdle /\ AppIdle

NextParse == \E f \in Fragments : AppendFragment(f)

SpecParse == InitParse /\ [][NextParse]_vars

(***************************************************************************)
(* SpecCase: parse_command applied to a text and to a variant of it that   *)
(* differs in letter case and in leading and trailing whitespace.          *)
(***************************************************************************)
ToggleChar(c) == IF LowerChar(c) = c THEN UpperChar(c) ELSE LowerChar(c)

CaseTexts == Fragments \cup {S_decrease_the_flow}

ToggleCase(k) ==
    /\ ntoggles < MaxToggles
    /\ k \in 1..Len(variant)
    /\ ToggleChar(variant[k]) # variant[k]
    /\ ntoggles' = ntoggles + 1
    /\ variant' = [variant EXCEPT ![k] = ToggleChar(variant[k])]
    /\ variantResult' = parse_command(variant')
    /\ result' = parse_command(text)
    /\ UNCHANGED <<text, nfrags, npads>>
    /\ UNCHANGED appVars

UpperCase ==
    /\ variant' = upper(variant)
    /\ variant' # variant
    /\ variantResult' = parse_command(variant')
    /\ result' = parse_command(text)
    /\ UNCHANGED <<text, nfrags, ntoggles, npads>>
    /\ UNCHANGED appVars

PadLeft(w) ==
    /\ npads < MaxPad
    /\ npads' = npads + 1
    /\ variant' = <<w>> \o variant
    /\ variantResult' = parse_command(variant')
    /\ result' = parse_command(text)
    /\ UNCHANGED <<text, nfrags, ntoggles>>
    /\ UNCHANGED appVars

PadRight(w) ==
    /\ npads < MaxPad
    /\ npads' = npads + 1
    /\ variant' = variant \o <<w>>
    /\ variantResult' = parse_command(variant')
    /\ result' = parse_command(text)
    /\ UNCHANGED <<text, nfrags, ntoggles>>
    /\ UNCHANGED appVars

InitCase ==
    /\ text \in CaseTexts
    /\ result = "unset"
    /\ nfrags = 1
    /\ variant = text
    /\ variantResult = "unset"
    /\ ntoggles = 0
    /\ npads = 0
    /\ AppIdle

NextCase ==
    \/ \E k \in 1..Len(variant) : ToggleCase(k)
    \/ UpperCase
    \/ \E w \in PadChars : PadLeft(w)
    \/ \E w \in PadChars : PadRight(w)

SpecCase == InitCase /\ [][NextCase]_vars

(***************************************************************************)
(* The parser as one ordered rule list: each rule is a set of alternatives,*)
(* each alternative a set of phrases that must all occur in the text.      *)
(***************************************************************************)
RuleList ==
    << [alts |-> {{S_increase_blood_flow}, {S_increase, S_flow}, {S_more_blood}},
        code |-> "1"],
       [alts |-> {{S_decrease_blood_flow}, {S_decrease, S_flow}, {S_reduce_blood}},
        code |-> "2"] >>
    \o [k \in 1..Len(COMMAND_MAP) |->
            [alts |-> {{COMMAND_MAP[k].phrase}}, code |-> COMMAND_MAP[k].code]]

RuleHolds(r, t) == \E alt \in r.alts : \A p \in alt : Contains(t, p)

\* Code of the first rule among RuleList[1..n] that holds for t, None if none does.
FirstMatchCode(t, n) ==
    LET hits == {k \in 1..n : RuleHolds(RuleList[k], t)}
    IN  IF hits = {} THEN None
        ELSE RuleList[CHOOSE k \in hits : \A j \in hits : k <= j].code

\* Position in RuleList of the table rule for phrase p.
RuleIndex(p) == CHOOSE k \in 1..Len(RuleList) : RuleList[k].alts = {{p}}

Normal(t) == strip(lower(t))

----------------------------------------------------------------------------
\* C1 (as stated): every text containing "alarm on" parses to "1", and every
\* text containing "alarm off" or "mute alarm" parses to "2", whatever else
\* the text contains.
C1_AlarmPhraseAlwaysWins ==
    result # "unset" =>
        /\ Contains(text, S_alarm_on) => result = "1"
        /\ (Contains(text, S_alarm_off) \/ Contains(text, S_mute_alarm))
               => result = "2"

\* C1 (amended): a text containing "alarm on" parses to "1" unless a rule of
\* higher priority with code "2" is the first to match, and a text containing
\* "alarm off" or "mute alarm" parses to "2" unless a rule of higher priority
\* with code "1" is the first to match.
C1_AlarmPhraseUnlessEarlierRule ==
    result # "unset" =>
        /\ ( /\ Contains(text, S_alarm_on)
             /\ FirstMatchCode(Normal(text), RuleIndex(S_alarm_on) - 1) # "2" )
               => result = "1"
        /\ ( /\ Contains(text, S_alarm_off) \/ Contains(text, S_mute_alarm)
             /\ FirstMatchCode(Normal(text), RuleIndex(S_alarm_off) - 1) # "1" )
               => result = "2"

\* A text holding "alarm on" next to a later table phrase of code "2" got "1",
\* and a text holding "mute alarm" next to a later phrase of code "1" got "2".
C1_Witness ==
    \/ /\ Contains(text, S_alarm_on) /\ Contains(text, S_reset)
       /\ result = "1"
    \/ /\ Contains(text, S_mute_alarm) /\ Contains(text, S_critical_mode)
       /\ result = "2"

\* C2: parse_command gives a text and any variant of it that differs only in
\* letter case and in leading or trailing whitespace the same result.
C2_CaseAndWhitespaceInsensitive ==
    (result # "unset" /\ variantResult # "unset") => variantResult = result

\* " INCREASE BLOOD FLOW " (upper-cased, padded on both sides) parsed to "1".
C2_Witness ==
    /\ text = S_increase_blood_flow
    /\ variant = <<" ">> \o upper(S_increase_blood_flow) \o <<" ">>
    /\ result = "1"
    /\ variantResult = "1"

\* C3: parse_command returns the code of the first rule of the ordered list
\* (increase rule, decrease rule, then the COMMAND_MAP entries in insertion
\* order) whose phrase condition holds, and the null result if none holds.
C3_FirstMatchOverOrderedRules ==
    result # "unset" => result = FirstMatchCode(Normal(text), Len(RuleList))

\* A text matching the hard-coded decrease rule and the table phrase
\* "alarm on" got the hard-coded rule's code, and a text matching the table
\* phrases "decrease oxygen" and "alarm on" got the earlier one's code.
C3_Witness ==
    /\ result = "2"
    /\ Contains(text, S_alarm_on)
    /\ ~RuleHolds(RuleList[1], Normal(text))
    /\ \/ RuleHolds(RuleList[2], Normal(text))
       \/ Contains(text, S_decrease_oxygen)

----------------------------------------------------------------------------
(***************************************************************************)
(* Claims about the sender, the capture loop and the interface state.      *)
(***************************************************************************)
\* The calls a background step added to the event queue.
Posted == SubSeq(queue', Len(queue) + 1, Len(queue'))

\* The step in which send_request thread t handles its outcome and ends.
HandlesSend(t) ==
    /\ t \in DOMAIN sends
    /\ sends[t].pc = "handle"
    /\ sends' = SubSeq(sends, 1, t - 1) \o SubSeq(sends, t + 1, Len(sends))
    /\ Len(queue') >= Len(queue)

CountLevel(evs, level) ==
    Cardinality({k \in DOMAIN evs : evs[k].fn = "log_message" /\ evs[k].level = level})

StatusUpdates(evs) ==
    {evs[k].status : k \in {j \in DOMAIN evs : evs[j].fn = "update_esp_status"}}

FailureKinds == {"ConnectionError", "Timeout", "Exception"}

ErrorMessages(o) ==
    LET evs == send_request_events(o)
    IN  {evs[k].msg : k \in {j \in DOMAIN evs : evs[j].fn = "log_message"
                                                /\ evs[j].level = "ERROR"}}

\* C4: every failed delivery (connection failure, timeout, any other
\* exception) is contained by send_request: the thread ends, it schedules
\* exactly one ERROR report, the report's message differs between the three
\* failure kinds, and it schedules a status update to a failure value.
C4_FailedDeliveryContained ==
    /\ \A o1, o2 \in {o \in SendOutcomes : o.kind \in FailureKinds} :
           o1 # o2 => ErrorMessages(o1) \cap ErrorMessages(o2) = {}
    /\ [][ \A t \in DOMAIN sends :
             (HandlesSend(t) /\ sends[t].outcome.kind \in FailureKinds) =>
                 /\ CountLevel(Posted, "ERROR") = 1
                 /\ StatusUpdates(Posted) # {}
                 /\ StatusUpdates(Posted) \subseteq {"Not Connected", "Timeout"}
         ]_vars

\* C9: for every completed request, a 200 response schedules the
\* acknowledgment report and the status Connected; any other status code
\* schedules exactly one WARN report, no ERROR report and no status update.
C9_ResponseClassified ==
    [][ \A t \in DOMAIN sends :
          (HandlesSend(t) /\ sends[t].outcome.kind = "response") =>
              IF sends[t].outcome.status_code = 200
              THEN /\ Posted = << LogEvent("OK", "ESP acknowledged command"),
                                  StatusEvent("Connected") >>
              ELSE /\ CountLevel(Posted, "WARN") = 1
                   /\ CountLevel(Posted, "ERROR") = 0
                   /\ StatusUpdates(Posted) = {}
      ]_vars

\* The warning of a request that ended with a status other than 200 waits in
\* the event queue while the device indicator still shows Connected.
C9_Witness ==
    /\ esp_status = "Connected"
    /\ \E k \in DOMAIN queue : queue[k] = LogEvent("WARN", "ESP returned status")
    /\ \A k \in DOMAIN queue : queue[k].fn # "update_esp_status"

----------------------------------------------------------------------------
\* The step in which listen_loop thread t moves on.
Moves(t) == t \in DOMAIN loops /\ loops'[t].pc # loops[t].pc

\* C5: while the listening flag is set the capture loop keeps running: a
\* wait timeout goes back to the while test with nothing scheduled, an
\* unintelligible-audio error and a recognition-service error each schedule
\* one log entry and go back to the while test, which starts the next
\* iteration; any other exception schedules one ERROR log entry and ends the
\* loop, which never runs again: only start_listening starts a new loop.
C5_LoopSurvivesRecoverableErrors ==
    [][ /\ \A t \in DOMAIN loops :
             LET a == loops[t]
                 b == loops'[t]
             IN  /\ (Moves(t) /\ a.pc \in {"listen", "recognize"}) =>
                       /\ b.last = "WaitTimeoutError" =>
                              b.pc = "check" /\ Posted = << >>
                       /\ b.last = "UnknownValueError" =>
                              /\ b.pc = "check"
                              /\ Len(Posted) = 1
                              /\ CountLevel(Posted, "WARN") = 1
                       /\ b.last = "RequestError" =>
                              /\ b.pc = "check"
                              /\ Len(Posted) = 1
                              /\ CountLevel(Posted, "ERROR") = 1
                       /\ b.last = "Exception" =>
                              /\ b.pc = "exited"
                              /\ Len(Posted) = 1
                              /\ CountLevel(Posted, "ERROR") = 1
                 /\ (Moves(t) /\ a.pc = "check") =>
                       b.pc = IF is_listening THEN "listen" ELSE "exited"
                 /\ a.pc = "exited" => b.pc = "exited"
        /\ Len(loops') >= Len(loops)
        /\ Len(loops') > Len(loops) =>
               /\ ~is_listening /\ is_listening'
               /\ clicks' = clicks + 1
      ]_vars

\* A loop went through a first iteration, began a second one and was ended
\* by an unexpected exception; the listening flag is still set.
C5_Witness ==
    \E t \in DOMAIN loops :
        /\ loops[t].pc = "exited"
        /\ loops[t].last = "Exception"
        /\ loops[t].begun = 2
        /\ is_listening

\* C6: a capture loop that is running when stop_listening is called finishes
\* at most its in-flight iteration and exits: after that call it begins at
\* most one further iteration.
C6_StopEndsLoop == \A t \in DOMAIN loops : loops[t].after <= 1

\* C7: every line of the log box is inserted by the interface thread;
\* background threads only schedule log_message on the event loop. (The
\* status labels and the last-speech label are assigned by interface-thread
\* handlers only.)
C7_OnlyInterfaceThreadMutates == \A k \in DOMAIN log : log[k].by = "ui"

----------------------------------------------------------------------------
\* The interface-thread step that runs the scheduled update_esp_status call.
AppliesStatus ==
    /\ queue # << >>
    /\ Head(queue).fn = "update_esp_status"
    /\ queue' = Tail(queue)
    /\ esp_status' = Head(queue).status

\* The status changes only when the update of a completed network attempt
\* is applied, or when capture starts or stops, and takes that value.
StatusChangesOnlyByAttempt ==
    /\ esp_status' # esp_status => AppliesStatus
    /\ mic_status' # mic_status =>
           /\ is_listening' # is_listening
           /\ mic_status' = IF is_listening' THEN "Listening" ELSE "Idle"

ScheduledStatusInSet ==
    \A k \in DOMAIN queue :
        queue[k].fn = "update_esp_status" =>
            queue[k].status \in {"Connected", "Not Connected", "Timeout"}

\* C8 (as stated): the microphone indicator is Idle or Listening and the
\* device indicator is Connected, Not Connected or Timeout in every reachable
\* state, and the status changes only with a network attempt or a start or
\* stop of capture.
C8_StatusInEnumeratedSet ==
    /\ [](/\ mic_status \in {"Idle", "Listening"}
          /\ esp_status \in {"Connected", "Not Connected", "Timeout"})
    /\ [][StatusChangesOnlyByAttempt]_vars

\* C8 (amended): the device indicator also shows "Checking..." from
\* construction until the first update of a network attempt is applied, and
\* never returns to it.
C8_StatusInSetWithChecking ==
    /\ [](/\ mic_status \in {"Idle", "Listening"}
          /\ esp_status \in {"Checking...", "Connected", "Not Connected", "Timeout"}
          /\ ScheduledStatusInSet)
    /\ [][ /\ StatusChangesOnlyByAttempt
           /\ esp_status' = "Checking..." => esp_status = "Checking..." ]_vars

\* Capture was started and the update of a timed-out request was applied.
C8_Witness ==
    /\ mic_status = "Listening"
    /\ esp_status = "Timeout"

----------------------------------------------------------------------------
\* The interface-thread step that runs the scheduled process_speech call.
RunsProcessSpeech ==
    /\ queue # << >>
    /\ Head(queue).fn = "process_speech"
    /\ queue' = Tail(queue)

NoRuleHolds(t) == \A k \in 1..Len(RuleList) : ~RuleHolds(RuleList[k], Normal(t))

\* C10: parse_command returns a command code or the null result for every
\* text; it returns the null result exactly when no hard-coded rule and no
\* COMMAND_MAP phrase matches; process_speech then starts no send and logs
\* one warning, and otherwise sends the code.
C10_NoMatchNoAction ==
    [][ RunsProcessSpeech =>
          IF NoRuleHolds(Head(queue).text)
          THEN /\ sends' = sends
               /\ Cardinality({k \in DOMAIN log' : log'[k].level = "WARN"}) = 1
          ELSE /\ Len(sends') = Len(sends) + 1
               /\ sends'[Len(sends')].value \in {"1", "2"}
               /\ \A k \in DOMAIN log' : log'[k].level # "WARN"
      ]_vars

\* "hello" was heard, matched nothing, and only the warning was logged.
C10_Witness ==
    /\ speech_text = Quoted(S_hello)
    /\ log = << Entry("HEARD", "(the text)", "ui"),
                Entry("WARN", "Unknown command - no action taken", "ui") >>
    /\ sends = << >>

----------------------------------------------------------------------------
\* C11: while the microphone list is the placeholder of an enumeration that
\* found nothing or failed, listening is off and the microphone indicator
\* shows Idle, and no step sets the listening flag or starts a capture loop;
\* so listening begins only from a list a refresh has filled.
C11_ConfigErrorBlocksListening ==
    /\ [](~valid_mic_list(mic_list) =>
             /\ ~is_listening
             /\ mic_status = "Idle")
    /\ [][ ~valid_mic_list(mic_list) =>
             /\ ~is_listening'
             /\ Len(loops') = Len(loops)
             /\ mic_status' = "Idle" ]_vars

----------------------------------------------------------------------------
\* The listen_loop threads that have not returned.
AliveLoops == {t \in DOMAIN loops : Alive(loops[t])}

\* C12: at most one capture loop is alive at any time, and a capture loop is
\* started only when the listening flag is clear and every loop started
\* before has exited.
C12_AtMostOneCaptureLoop ==
    /\ [](Cardinality(AliveLoops) <= 1)
    /\ [][ Len(loops') > Len(loops) =>
             /\ ~is_listening
             /\ AliveLoops = {} ]_vars

====
